---- MODULE Spec2Model ----
(***************************************************************************)
(* Model of the avalanche classifier (src/src/main.rs):                    *)
(*   - classify_image: decoding of the service reply, the rule-based       *)
(*     scoring of the visual characteristics and the validation checks;    *)
(*   - AvalancheClassifier::update: the promise / result / error fields    *)
(*     mutated by the Analyze button and by polling the promise.           *)
(* Two specifications share the variables: SpecClassify runs one           *)
(* classify_image call over every reply of the bounded input space; Spec   *)
(* runs the application frames with background classify threads.           *)
(***************************************************************************)
EXTENDS Integers, Sequences, FiniteSets, TLC

VARIABLES
    pc,              \* SpecClassify: "start" before classify_image ran, "done" after
    response,        \* SpecClassify: the reply of the network exchange
    outcome,         \* SpecClassify: what classify_image returned (or its panic)
    openai_api_key,  \* AvalancheClassifier.openai_api_key
    image_data,      \* AvalancheClassifier.image_data ("None" / "Some")
    promise,         \* AvalancheClassifier.promise: 0 is None, i > 0 the i-th thread
    result,          \* AvalancheClassifier.result (NoAnalysis is None)
    error,           \* AvalancheClassifier.error (NoError is None)
    threads,         \* the spawned "classify" threads, in spawn order
    crashed,         \* the UI thread panicked
    surfaced         \* history: the threads whose outcome update() stored, in order

classifyVars == <<pc, response, outcome>>
appVars == <<openai_api_key, image_data, promise, result, error, threads, crashed,
             surfaced>>
vars == <<pc, response, outcome, openai_api_key, image_data, promise, result, error,
          threads, crashed, surfaced>>

----------------------------------------------------------------------------
(* Closed vocabularies of the schema (the prompt, main.rs 446-477).        *)

Densities == {"low", "medium", "high"}
StartingWidths == {"point", "wide", "undefined"}
Propagations == {"fan", "linear", "chaotic", "none"}
DebrisPatterns == {"fan-shaped", "linear", "scattered"}
SlopeAngles == {"null", "steep (>45)"}
\* the four canonical spellings and one spelling outside the vocabulary
AvalancheTypes == {"powder", "loose-snow", "slab", "none", "wet-snow"}
\* confidence_level: below the range, its two ends, above the range
ConfidenceLevels == {-1, 0, 100, 137}

VisualCharacteristics ==
    [powder_cloud : BOOLEAN, fracture_line : BOOLEAN,
     debris_pattern : DebrisPatterns,
     granular : BOOLEAN, blocky : BOOLEAN, fluffy : BOOLEAN, density : Densities,
     starting_width : StartingWidths, propagation : Propagations,
     vertical_movement : BOOLEAN, lateral_spread : BOOLEAN,
     slope_angle : SlopeAngles]

AvalancheAnalysis ==
    [avalanche_present : BOOLEAN, avalanche_type : AvalancheTypes,
     confidence_level : ConfidenceLevels,
     visual_characteristics : VisualCharacteristics]

\* Option::None for an AvalancheAnalysis (avalanche_type "" tells it from a value)
NoCharacteristics ==
    [powder_cloud |-> FALSE, fracture_line |-> FALSE, debris_pattern |-> "",
     granular |-> FALSE, blocky |-> FALSE, fluffy |-> FALSE, density |-> "",
     starting_width |-> "", propagation |-> "", vertical_movement |-> FALSE,
     lateral_spread |-> FALSE, slope_angle |-> "null"]

NoAnalysis == [avalanche_present |-> FALSE, avalanche_type |-> "",
               confidence_level |-> 0, visual_characteristics |-> NoCharacteristics]

----------------------------------------------------------------------------
(* Named characteristics.                                                  *)

Chars(flags, density, width, propagation) ==
    [powder_cloud |-> "powder_cloud" \in flags, fracture_line |-> "fracture_line" \in flags,
     debris_pattern |-> "scattered",
     granular |-> "granular" \in flags, blocky |-> "blocky" \in flags,
     fluffy |-> "fluffy" \in flags, density |-> density,
     starting_width |-> width, propagation |-> propagation,
     vertical_movement |-> "vertical_movement" \in flags,
     lateral_spread |-> "lateral_spread" \in flags, slope_angle |-> "null"]

\* the slab signature: fracture line, blocky, wide start, linear propagation, high density
SlabSignature == Chars({"fracture_line", "blocky"}, "high", "wide", "linear")

\* one primary indicator of each category and nothing else: three equal scores
ThreeWayTie == Chars({"powder_cloud", "fracture_line"}, "medium", "point", "none")

\* one primary indicator and the three secondary ones of powder
SinglePowderCue ==
    [Chars({"powder_cloud", "fracture_line"}, "low", "undefined", "chaotic")
        EXCEPT !.slope_angle = "steep (>45)"]

SampleCharacteristics == {SlabSignature, ThreeWayTie, SinglePowderCue}

----------------------------------------------------------------------------
(* The reply of the single network exchange.                               *)
(*   send   : "error" when send() or text() fails, else "ok"               *)
(*   status : the HTTP status                                              *)
(*   body   : "not_json"   the body is no JSON document                    *)
(*            "no_content" choices[0].message.content is no string         *)
(*            "bad_content" the content does not decode as AvalancheAnalysis*)
(*            "analysis"   the content decodes to field analysis           *)

HttpStatuses == {200, 500}

\* the reply without the characteristics of a decoded analysis
Envelopes ==
    [send : {"error"}, status : {0}, body : {"not_json"}, analysis : {NoAnalysis}]
    \cup [send : {"ok"}, status : HttpStatuses,
          body : {"not_json", "no_content", "bad_content"}, analysis : {NoAnalysis}]
    \cup [send : {"ok"}, status : HttpStatuses, body : {"analysis"},
          analysis : [avalanche_present : BOOLEAN, avalanche_type : AvalancheTypes,
                      confidence_level : ConfidenceLevels,
                      visual_characteristics : {NoCharacteristics}]]

\* the replies an envelope stands for: a decoded analysis carries any
\* characteristics (with a non-success status: any of SampleCharacteristics)
Replies(e) ==
    IF e.body # "analysis" THEN {e}
    ELSE {[e EXCEPT !.analysis.visual_characteristics = c] :
            c \in IF e.status = 200 THEN VisualCharacteristics
                  ELSE SampleCharacteristics}

NoResponse == [send |-> "", status |-> 0, body |-> "", analysis |-> NoAnalysis]

----------------------------------------------------------------------------
(* anyhow::Result<AvalancheAnalysis>, plus the panic of the unwrap.        *)

Ok(a) == [tag |-> "Ok", value |-> a, msg |-> "", expected |-> "", score |-> 0,
          reported |-> ""]
Err(m) == [tag |-> "Err", value |-> NoAnalysis, msg |-> m, expected |-> "",
           score |-> 0, reported |-> ""]
ErrInconsistent(e, s, r) ==
    [tag |-> "Err", value |-> NoAnalysis, msg |-> "Inconsistent classification",
     expected |-> e, score |-> s, reported |-> r]
Panic == [tag |-> "Panic", value |-> NoAnalysis, msg |-> "unwrap on None",
          expected |-> "", score |-> 0, reported |-> ""]
NoOutcome == [tag |-> "", value |-> NoAnalysis, msg |-> "", expected |-> "",
              score |-> 0, reported |-> ""]

----------------------------------------------------------------------------
(* Scoring (main.rs 564-598).                                              *)

PrimaryWeight == 3
SecondaryWeight == 1
MinScoreDifference == 3
MinScore == 6
MinConfidence == 0
MaxConfidence == 100

Add(cond, w) == IF cond THEN w ELSE 0

\* a.starts_with("steep") over the slope vocabulary; None maps to false
StartsWithSteep(a) == a \in {"steep (>45)"}

powder_score(chars) ==
      Add(chars.powder_cloud, PrimaryWeight)
    + Add(chars.fluffy, PrimaryWeight)
    + Add(chars.vertical_movement, PrimaryWeight)
    + Add(chars.density = "low", SecondaryWeight)
    + Add(chars.propagation = "chaotic", SecondaryWeight)
    + Add(StartsWithSteep(chars.slope_angle), SecondaryWeight)

loose_snow_score(chars) ==
      Add(chars.starting_width = "point", PrimaryWeight)
    + Add(chars.propagation = "fan", PrimaryWeight)
    + Add(chars.granular, PrimaryWeight)
    + Add(chars.debris_pattern = "fan-shaped", PrimaryWeight)
    + Add(~chars.fracture_line, SecondaryWeight)
    + Add(chars.density = "low", SecondaryWeight)
    + Add(StartsWithSteep(chars.slope_angle), SecondaryWeight)

slab_score(chars) ==
      Add(chars.fracture_line, PrimaryWeight)
    + Add(chars.blocky, PrimaryWeight)
    + Add(chars.starting_width = "wide", PrimaryWeight)
    + Add(chars.propagation = "linear", PrimaryWeight)
    + Add(chars.density = "high", SecondaryWeight)
    + Add(chars.debris_pattern = "linear", SecondaryWeight)
    + Add(chars.lateral_spread, SecondaryWeight)

\* the array [(powder_score, "powder"), (loose_snow_score, "loose-snow"), (slab_score, "slab")]
ScoredTypes(chars) ==
    << <<powder_score(chars), "powder">>,
       <<loose_snow_score(chars), "loose-snow">>,
       <<slab_score(chars), "slab">> >>

\* Iterator::max_by_key: of several maximal elements the last one is returned
MaxByKey(arr) ==
    LET best == CHOOSE i \in 1..Len(arr) :
                    /\ \A j \in 1..Len(arr) : arr[j][1] <= arr[i][1]
                    /\ \A j \in (i+1)..Len(arr) : arr[j][1] < arr[i][1]
    IN  arr[best]

\* the scores that survive .filter(|score| score != highest_score)
OtherScores(arr, highest) == {arr[i][1] : i \in 1..Len(arr)} \ {highest}

\* Iterator::max of a non-empty set of scores
MaxOf(S) == CHOOSE s \in S : \A t \in S : t <= s

----------------------------------------------------------------------------
(* Validation (main.rs 558-655).                                           *)

\* CanonicalTypes with a fifth spelling let through (breaks C11)
CanonicalTypes_Wide == {"powder", "loose-snow", "slab", "none", "wet-snow"}

CanonicalTypes == {"powder", "loose-snow", "slab", "none"}

\* TooClose with the threshold itself counted as too close (breaks C10)
TooClose_Inclusive(highest, second) == highest - second <= MinScoreDifference

\* (highest_score - second_highest_score) < 3
TooClose(highest, second) == highest - second < MinScoreDifference

\* TooLow with the minimum score off by one (breaks C6)
TooLow_OffByOne(highest) == highest < MinScore - 1

\* highest_score < 6
TooLow(highest) == highest < MinScore

\* Mismatch that never fires (breaks C9)
Mismatch_Never(detected, expected) == FALSE

\* detected_type != expected_type
Mismatch(detected, expected) == detected # expected

\* ConfidenceInvalid without the upper end of the range (breaks C7)
ConfidenceInvalid_NoUpper(c) == c < MinConfidence

\* confidence_level < 0.0 || confidence_level > 100.0
ConfidenceInvalid(c) == c < MinConfidence \/ c > MaxConfidence

\* the block guarded by `if analysis.avalanche_present`: the outcome it returns
\* early with, or NoOutcome when control falls through to line 641.  The
\* unwrap of line 617 panics when the filter left no score.
ScoreChecks(a) ==
    LET arr == ScoredTypes(a.visual_characteristics)
        top == MaxByKey(arr)
        highest_score == top[1]
        expected_type == top[2]
        others == OtherScores(arr, highest_score)
        second_highest_score == MaxOf(others)
    IN  IF others = {} THEN Panic
        ELSE IF TooClose(highest_score, second_highest_score)
             THEN Err("Classification uncertainty")
        ELSE IF TooLow(highest_score)
             THEN Err("Insufficient characteristic evidence")
        ELSE IF Mismatch(a.avalanche_type, expected_type)
             THEN ErrInconsistent(expected_type, highest_score, a.avalanche_type)
        ELSE NoOutcome

\* Validate that scores also when avalanche_present is false (breaks C12)
Validate_AlwaysScores(a) ==
    LET early == ScoreChecks(a) IN
    IF early # NoOutcome THEN early
    ELSE IF a.avalanche_type \notin CanonicalTypes THEN Err("Invalid avalanche type")
    ELSE IF ConfidenceInvalid(a.confidence_level) THEN Err("Invalid confidence level")
    ELSE Ok(a)

\* lines 558-655 on a decoded analysis
Validate(a) ==
    LET early == IF a.avalanche_present THEN ScoreChecks(a) ELSE NoOutcome IN
    IF early # NoOutcome THEN early
    ELSE IF a.avalanche_type \notin CanonicalTypes THEN Err("Invalid avalanche type")
    ELSE IF ConfidenceInvalid(a.confidence_level) THEN Err("Invalid confidence level")
    ELSE Ok(a)

\* lines 545-556: send, text, the two decodings and the content lookup
classify_image(r) ==
    IF r.send = "error" THEN Err("request failed")
    ELSE IF r.body = "not_json" THEN Err("response is not JSON")
    ELSE IF r.body = "no_content" THEN Err("Empty API response")
    ELSE IF r.body = "bad_content" THEN Err("JSON parse error")
    ELSE Validate(r.analysis)

----------------------------------------------------------------------------
(* AvalancheClassifier::new (main.rs 63-73).                               *)

AppInit ==
    /\ openai_api_key = ""
    /\ image_data = "None"
    /\ promise = 0
    /\ result = NoAnalysis
    /\ error = NoOutcome
    /\ threads = <<>>
    /\ crashed = FALSE
    /\ surfaced = <<>>

----------------------------------------------------------------------------
(* SpecClassify: one classify_image call on every reply.  At pc = "start"  *)
(* response holds the envelope of the reply that is about to arrive.       *)

InitClassify ==
    /\ pc = "start"
    /\ response \in Envelopes
    /\ outcome = NoOutcome
    /\ AppInit

\* the network exchange answers r and classify_image runs to its end on it
ClassifyImage ==
    /\ pc = "start"
    /\ \E r \in Replies(response) :
        /\ response' = r
        /\ outcome' = classify_image(r)
    /\ pc' = "done"
    /\ UNCHANGED appVars

NextClassify == ClassifyImage

SpecClassify == InitClassify /\ [][NextClassify]_vars

----------------------------------------------------------------------------
(* Spec: the frames of the application (AvalancheClassifier::update) and   *)
(* the background threads spawned by the Analyze button.                   *)

\* the number of Analyze clicks a behaviour may hold
MaxSubmits == 3

ApiKeys == {"", "sk-key"}

Reply(present, type, confidence, chars) ==
    [send |-> "ok", status |-> 200, body |-> "analysis",
     analysis |-> [avalanche_present |-> present, avalanche_type |-> type,
                   confidence_level |-> confidence, visual_characteristics |-> chars]]

\* the replies a classify thread of Spec may receive
ThreadReplies ==
    { Reply(TRUE, "slab", 100, SlabSignature),
      Reply(TRUE, "powder", 100, SlabSignature),
      Reply(FALSE, "none", 0, ThreeWayTie),
      Reply(TRUE, "powder", 100, ThreeWayTie),
      [send |-> "error", status |-> 0, body |-> "not_json", analysis |-> NoAnalysis] }

Thread(status, out) == [status |-> status, outcome |-> out]

\* the body of the spawned closure: classify_image to its end, then sender.send;
\* a panic unwinds the thread and drops the sender
RunThread(r) ==
    LET out == classify_image(r) IN
    IF out.tag = "Panic" THEN Thread("panicked", NoOutcome) ELSE Thread("done", out)

\* !openai_api_key.is_empty() && image_data.is_some()
api_ready(key, image) == key # "" /\ image = "Some"

\* number of classify_image invocations started and not ended
InFlight == Cardinality({i \in 1..Len(threads) : threads[i].status = "running"})

Init ==
    /\ pc = "idle"
    /\ response = NoResponse
    /\ outcome = NoOutcome
    /\ AppInit

\* the click keeps a promise that is still pending (breaks C16)
PromiseAfterClick_KeepsPending(spawn) ==
    IF spawn /\ promise = 0 THEN Len(threads) + 1 ELSE promise

\* self.promise after the click handler (190-201): the thread just spawned
\* replaces whatever the promise held
PromiseAfterClick(spawn) == IF spawn THEN Len(threads) + 1 ELSE promise

\* the Ok branch without `self.error = None` (breaks C15)
ResolvedOk_KeepsError(out) == [result |-> out.value, error |-> error]

\* Some(Ok(result)) (206-210): the fields result and error after the branch
ResolvedOk(out) == [result |-> out.value, error |-> NoOutcome]

\* Some(Err(err)) (211-215): the fields result and error after the branch
ResolvedErr(out) == [result |-> NoAnalysis, error |-> out]

\* One frame: the key edit, the upload button, the Analyze button (189-201) and the
\* poll of the promise (203-223).  key is the text after the edit, upload what
\* the file dialog gave, clicked whether the Analyze button was pressed.
\* The click does not look at the promise: it spawns a thread and overwrites
\* the promise, and the thread it replaces keeps running.  Promise::ready on a
\* promise whose thread panicked (sender dropped) panics in the UI thread.
Update(key, upload, clicked) ==
    LET image == IF upload = "image" THEN "Some" ELSE image_data
        spawn == clicked /\ api_ready(key, image)
        polled == PromiseAfterClick(spawn)
        ready == IF polled = 0 \/ polled > Len(threads) THEN "none"
                 ELSE threads[polled].status
    IN  /\ ~crashed
        /\ clicked => Len(threads) < MaxSubmits
        /\ ~(clicked /\ upload # "none")   \* one pointer click presses one button
        /\ openai_api_key' = key
        /\ image_data' = image
        /\ threads' = IF spawn THEN Append(threads, Thread("running", NoOutcome))
                      ELSE threads
        /\ IF ready = "done" /\ threads[polled].outcome.tag = "Ok"
           THEN /\ result' = ResolvedOk(threads[polled].outcome).result
                /\ error' = ResolvedOk(threads[polled].outcome).error
                /\ promise' = 0
                /\ surfaced' = Append(surfaced, polled)
                /\ crashed' = FALSE
           ELSE IF ready = "done"
           THEN /\ error' = ResolvedErr(threads[polled].outcome).error
                /\ result' = ResolvedErr(threads[polled].outcome).result
                /\ promise' = 0
                /\ surfaced' = Append(surfaced, polled)
                /\ crashed' = FALSE
           ELSE /\ promise' = polled
                /\ crashed' = (ready = "panicked")
                /\ UNCHANGED <<result, error, surfaced>>
        /\ UNCHANGED classifyVars

Frame == \E key \in ApiKeys, upload \in {"none", "image", "not_image"},
            clicked \in BOOLEAN : Update(key, upload, clicked)

\* thread i receives its reply and ends
ThreadEnd(i) ==
    /\ ~crashed
    /\ threads[i].status = "running"
    /\ \E r \in ThreadReplies : threads' = [threads EXCEPT ![i] = RunThread(r)]
    /\ UNCHANGED <<classifyVars, openai_api_key, image_data, promise, result, error,
                   crashed, surfaced>>

Next ==
    \/ Frame
    \/ \E i \in 1..Len(threads) : ThreadEnd(i)

Spec == Init /\ [][Next]_vars

----------------------------------------------------------------------------
(* Vocabulary of the claims about classify_image (SpecClassify).           *)

\* classify_image has run on a reply whose content decoded to an analysis
Decoded == pc = "done" /\ response.send = "ok" /\ response.body = "analysis"

Analysis == response.analysis
Present == Analysis.avalanche_present
ReportedType == Analysis.avalanche_type
ReportedChars == Analysis.visual_characteristics
ConfidenceInRange ==
    Analysis.confidence_level >= 0 /\ Analysis.confidence_level <= 100

\* the score of category t on the reported characteristics (-1: t is no category)
ScoreOf(t) ==
    CASE t = "powder" -> powder_score(ReportedChars)
      [] t = "loose-snow" -> loose_snow_score(ReportedChars)
      [] t = "slab" -> slab_score(ReportedChars)
      [] OTHER -> -1

Categories == {"powder", "loose-snow", "slab"}

\* highest: the maximum of the three scores; second: the greatest of the
\* remaining two scores, one owner of the maximum set aside (so second =
\* highest when two categories tie for the top)
Evidence ==
    LET p == powder_score(ReportedChars)
        l == loose_snow_score(ReportedChars)
        s == slab_score(ReportedChars)
        hi == IF p >= l /\ p >= s THEN p ELSE IF l >= s THEN l ELSE s
        lo == IF p <= l /\ p <= s THEN p ELSE IF l <= s THEN l ELSE s
    IN  [highest |-> hi, second |-> p + l + s - hi - lo]

Highest == Evidence.highest
Second == Evidence.second

\* the number of primary (weight 3) indicators of category t that are set
PrimaryCount(t) ==
    LET c == ReportedChars
        n(b) == IF b THEN 1 ELSE 0
    IN  CASE t = "powder" -> n(c.powder_cloud) + n(c.fluffy) + n(c.vertical_movement)
          [] t = "loose-snow" -> n(c.starting_width = "point") + n(c.propagation = "fan")
                                 + n(c.granular) + n(c.debris_pattern = "fan-shaped")
          [] t = "slab" -> n(c.fracture_line) + n(c.blocky)
                           + n(c.starting_width = "wide") + n(c.propagation = "linear")
          [] OTHER -> 0

Accepted == outcome.tag = "Ok"
RejectedWith(m) == outcome.tag = "Err" /\ outcome.msg = m

----------------------------------------------------------------------------
(* C1: a present = true result with highest - second < 3 (second being the *)
(* greatest of the remaining two scores) is rejected as ambiguous; stated  *)
(* here by its last clause: no such result is ever accepted.               *)
C1_CloseScoresNeverAccepted ==
    (Decoded /\ Present /\ Highest - Second < 3) => ~Accepted

(* C2: every classify_image call on a decodable payload ends with exactly  *)
(* one outcome, the accepted result or a typed rejection.                  *)
C2_AlwaysAnOutcome ==
    Decoded => outcome.tag \in {"Ok", "Err"}

(* C3: at most one classification invocation is in flight at any time:    *)
(* the number of started-but-not-completed invocations is 0 or 1, also     *)
(* when Analyze is pressed again before the previous invocation completes. *)
C3_AtMostOneInFlight == InFlight <= 1

\* thread i sent its outcome and update() never stored it
Unsurfaced(i) ==
    /\ threads[i].status = "done"
    /\ \A k \in 1..Len(surfaced) : surfaced[k] # i

(* C4: no outcome is silently dropped: every outcome an invocation         *)
(* produced and that was not surfaced yet is the one the promise still     *)
(* waits for (update() stores outcomes only through the promise, so an     *)
(* outcome the promise no longer refers to is never surfaced).             *)
C4_NoOutcomeDropped ==
    \A i \in 1..Len(threads) : Unsurfaced(i) => promise = i

(* C5: in every state where a request is pending, neither a result nor an  *)
(* error of an earlier invocation is still stored.                         *)
C5_PendingStoresNothing ==
    promise # 0 => (result = NoAnalysis /\ error = NoOutcome)

(* C6 as stated, by the instance it names: a present = true result with    *)
(* best score 5 and next-best score 3 is rejected with the                 *)
(* insufficient-evidence error.                                            *)
C6_Best5Next3Insufficient ==
    (Decoded /\ Present /\ Highest = 5 /\ Second = 3)
        => RejectedWith("Insufficient characteristic evidence")

(* C6 amended: a present = true result whose highest score is below 6 is   *)
(* never accepted; it is rejected with the insufficient-evidence error     *)
(* when its margin to the second score is at least 3; best 5 with          *)
(* next-best 3 (margin 2) is rejected with the ambiguous-evidence error,   *)
(* whose check runs first.                                                 *)
C6_LowScoreRejected ==
    (Decoded /\ Present /\ Highest < 6)
        => /\ ~Accepted
           /\ Highest - Second >= 3
                => RejectedWith("Insufficient characteristic evidence")
           /\ (Highest = 5 /\ Second = 3) => RejectedWith("Classification uncertainty")

C6_Witness ==
    /\ Decoded /\ Present /\ Highest = 5 /\ Second = 2
    /\ RejectedWith("Insufficient characteristic evidence")

\* the checks that run before the confidence check let the analysis through
PassesEarlierChecks ==
    /\ ReportedType \in CanonicalTypes
    /\ Present => /\ Highest - Second >= 3
                  /\ Highest >= 6
                  /\ ScoreOf(ReportedType) = Highest

C8_TwoPrimaries ==
    (Decoded /\ Present /\ Accepted) => PrimaryCount(ReportedType) >= 2

\* classify_image got past the margin and the minimum-score checks
PassedMarginAndMinimum ==
    /\ outcome.tag \in {"Ok", "Err"}
    /\ outcome.msg \notin {"Classification uncertainty",
                          "Insufficient characteristic evidence"}

\* the characteristics of Scenario A
IsScenarioA ==
    ReportedChars = [SlabSignature EXCEPT !.debris_pattern = ReportedChars.debris_pattern]
    /\ ReportedChars.debris_pattern # "linear"

(* C9: a present = true result that passes the margin and minimum-score    *)
(* checks and whose avalanche_type is not the owner of the highest score   *)
(* is rejected with the inconsistent-classification error carrying an      *)
(* owner of the highest score and that score; every accepted present =     *)
(* true result reports an owner of the highest score; Scenario A reported  *)
(* as powder is rejected with expected = slab and score = 13.              *)
C9_InconsistentRejected ==
    (Decoded /\ Present)
        => /\ (PassedMarginAndMinimum /\ ScoreOf(ReportedType) # Highest)
                => /\ RejectedWith("Inconsistent classification")
                   /\ ScoreOf(outcome.expected) = Highest
                   /\ outcome.score = Highest
                   /\ outcome.reported = ReportedType
           /\ Accepted => ScoreOf(ReportedType) = Highest
           /\ (IsScenarioA /\ ReportedType = "powder")
                => outcome = ErrInconsistent("slab", 13, "powder")

C9_Witness ==
    /\ Decoded /\ Present /\ IsScenarioA /\ ReportedType = "powder"
    /\ PassedMarginAndMinimum
    /\ RejectedWith("Inconsistent classification")

(* C10: a present = true result whose best score is exactly 6, whose       *)
(* next-best score is exactly 3, whose avalanche_type is the best-scoring  *)
(* category and whose confidence_level is within [0, 100] is accepted.     *)
C10_InclusiveThresholds ==
    (Decoded /\ Present /\ Highest = 6 /\ Second = 3
     /\ ScoreOf(ReportedType) = 6 /\ ConfidenceInRange)
        => outcome = Ok(Analysis)

C10_Witness ==
    /\ Decoded /\ Present /\ Highest = 6 /\ Second = 3
    /\ ScoreOf(ReportedType) = 6 /\ Analysis.confidence_level = 100
    /\ Accepted

(* C11: every accepted result is the unmodified parsed value, its          *)
(* confidence_level is within [0, 100] and its avalanche_type is one of    *)
(* powder, loose-snow, slab, none.                                         *)
C11_AcceptedInDomain ==
    (Decoded /\ Accepted)
        => /\ outcome.value = Analysis
           /\ outcome.value.confidence_level >= 0
           /\ outcome.value.confidence_level <= 100
           /\ outcome.value.avalanche_type \in {"powder", "loose-snow", "slab", "none"}

C11_Witness ==
    /\ Decoded /\ Accepted /\ ~Present
    /\ outcome.value = Analysis
    /\ Analysis.confidence_level = 100 /\ ReportedType = "none"

(* C12: a result with avalanche_present = false, a canonical               *)
(* avalanche_type and a confidence_level within [0, 100] is accepted for   *)
(* every value of visual_characteristics, also for values that would be    *)
(* rejected (or would not be decided at all) with avalanche_present true.  *)
C12_NoHazardAccepted ==
    (Decoded /\ ~Present /\ ConfidenceInRange
     /\ ReportedType \in {"powder", "loose-snow", "slab", "none"})
        => outcome = Ok(Analysis)

\* characteristics that are rejected as ambiguous when avalanche_present is true
C12_Witness ==
    /\ Decoded /\ ~Present /\ ConfidenceInRange /\ ReportedType = "powder"
    /\ Highest = 6 /\ Second = 6
    /\ ScoreOf("powder") = 1
    /\ Accepted

(* C14: no invocation whose response has a non-success status ends in an   *)
(* accepted result, whatever the response body contains.                   *)
C14_NonSuccessRejected ==
    (pc = "done" /\ response.send = "ok" /\ response.status # 200) => ~Accepted

----------------------------------------------------------------------------
(* Vocabulary of the claims about the lifecycle (Spec).                    *)

\* the step is a frame of update(): no thread ended in it
FrameStep == SubSeq(threads', 1, Len(threads)) = threads

\* the step submits: the Analyze click spawned a thread
SubmitStep == Len(threads') > Len(threads)

\* result and error hold the outcome out and nothing else
Stores(res, err, out) ==
    IF out.tag = "Ok" THEN res = out.value /\ err = NoOutcome
    ELSE res = NoAnalysis /\ err = out

\* before any submit the state is Idle
C13_IdleBeforeSubmit ==
    Len(threads) = 0 => (promise = 0 /\ result = NoAnalysis /\ error = NoOutcome)

\* until the invocation completes every poll observes Pending and changes nothing
C13_PendingPoll ==
    (promise # 0 /\ threads[promise].status = "running" /\ FrameStep)
        => (promise' # 0 /\ result' = result /\ error' = error /\ surfaced' = surfaced)

\* the first poll after completion moves to Resolved with that invocation's outcome
C13_FirstPoll ==
    (promise # 0 /\ threads[promise].status = "done" /\ FrameStep)
        => /\ promise' = 0
           /\ surfaced' = Append(surfaced, promise)
           /\ Stores(result', error', threads[promise].outcome)

\* later polls without a submit observe the same Resolved outcome and start nothing
C13_LaterPoll ==
    (promise = 0 /\ FrameStep /\ ~SubmitStep)
        => (promise' = 0 /\ result' = result /\ error' = error /\ threads' = threads)

(* C13: before any submit the state is Idle; from a submit until the       *)
(* invocation completes every poll observes Pending and changes nothing;   *)
(* the first poll after completion moves to Resolved with that             *)
(* invocation's outcome; every later poll without an intervening submit    *)
(* observes the same Resolved outcome and starts no further invocation.    *)
C13_Lifecycle ==
    /\ []C13_IdleBeforeSubmit
    /\ [][C13_PendingPoll /\ C13_FirstPoll /\ C13_LaterPoll]_vars

\* the thread whose outcome update() stored last
LastSurfaced == surfaced[Len(surfaced)]

(* C15: result and error are never populated at the same time; after a     *)
(* resolution to Ok result is set and error is cleared, after a resolution *)
(* to Err error is set and result is cleared.                              *)
C15_NeverBoth ==
    /\ ~(result # NoAnalysis /\ error # NoOutcome)
    /\ Len(surfaced) > 0 => Stores(result, error, threads[LastSurfaced].outcome)

\* an error was stored first and an accepted result replaced it
C15_Witness ==
    /\ Len(surfaced) >= 2
    /\ threads[surfaced[Len(surfaced) - 1]].outcome.tag = "Err"
    /\ threads[LastSurfaced].outcome.tag = "Ok"
    /\ result # NoAnalysis /\ error = NoOutcome

(* C16: with no request pending and at least one submit made, the stored   *)
(* result or error is the outcome of the most recently submitted           *)
(* invocation; outcomes are surfaced in submit order, so none of a         *)
(* superseded invocation follows one of a newer invocation.                *)
C16_LatestSurfaced ==
    /\ (promise = 0 /\ Len(threads) >= 1)
          => /\ threads[Len(threads)].status = "done"
             /\ Stores(result, error, threads[Len(threads)].outcome)
    /\ \A k, l \in 1..Len(surfaced) : k < l => surfaced[k] < surfaced[l]

\* the older of two invocations ended with another outcome and the newer one is stored
C16_Witness ==
    /\ promise = 0 /\ Len(threads) = 2 /\ surfaced = <<2>>
    /\ threads[1].status = "done"
    /\ threads[1].outcome # threads[2].outcome
    /\ Stores(result, error, threads[2].outcome)

====
